---- MODULE Spec2Model ----
(***************************************************************************)
(* Model of the crime-aware routing engine, Backend/crime_aware_router.py  *)
(* (class CrimeAwareRouter).                                               *)
(*                                                                         *)
(* Number representation.  The code works in floating-point degrees,       *)
(* metres and scores; the model works in exact integers:                   *)
(*   - a coordinate is an integer number of cells, one cell being          *)
(*     CellM/111000 degree (CellM metres under the code's flat-earth       *)
(*     factor 111000 m/degree); a point is <<lat, lng>>;                   *)
(*   - the point-to-segment distance is the code's value in metres,        *)
(*     rounded up to a whole metre (so "distance <= 100" is exact);        *)
(*   - the haversine distance is taken at the equator for small angles,    *)
(*     where it is 6371000*pi/180 = 111194.93 m/degree in both axes,       *)
(*     rounded down to a whole metre (so "dist < 200" is exact);           *)
(*   - safety scores are in thousandths of a point (100000 = score 100);   *)
(*   - factors carry their decimal scale in their name (..10 = tenths,     *)
(*     ..100 = hundredths);                                                *)
(*   - a waypoint handed to the oracle is <<lng, lat>> in units of         *)
(*     1/111000 degree, in which the offset 0.002 degree is exactly 222.   *)
(***************************************************************************)
EXTENDS Integers, Sequences, FiniteSets, TLC

\* ------------------------------------------------------------------ bounds

MaxCrimes == 2          \* rows the crime store holds

CellM == 50             \* metres per cell (flat-earth, 111000 m/degree)
HavSqNum == 25088       \* (CellM * 111194.93 / 111000)^2 = 2508.8 m^2 per cell^2
HavSqDen == 10
MaxMetres == 1023       \* upper end of the square-root searches

\* ------------------------------------------------- integer helper operators

Min2(a, b) == IF a <= b THEN a ELSE b
Max2(a, b) == IF a >= b THEN a ELSE b

\* round(n / d) for d > 0, half rounded up
RoundDiv(n, d) == (2 * n + d) \div (2 * d)

RECURSIVE SqrtSearch(_, _, _, _)
\* the smallest k in lo..hi with k*k*den >= num
SqrtSearch(lo, hi, num, den) ==
    IF lo >= hi THEN lo
    ELSE LET mid == (lo + hi) \div 2
         IN  IF mid * mid * den >= num
             THEN SqrtSearch(lo, mid, num, den)
             ELSE SqrtSearch(mid + 1, hi, num, den)

\* ceiling and floor of sqrt(num / den)
CeilSqrt(num, den) == SqrtSearch(0, MaxMetres, num, den)
FloorSqrt(num, den) == SqrtSearch(0, MaxMetres, num + 1, den) - 1

RECURSIVE SumSeq(_)
SumSeq(s) == IF s = <<>> THEN 0 ELSE Head(s) + SumSeq(Tail(s))

\* ------------------------------------------------ CrimeAwareRouter.__init__

severity_weights10 ==
    [s \in 1..10 |-> IF s <= 5 THEN s ELSE IF s = 6 THEN 7
                     ELSE IF s = 7 THEN 8 ELSE IF s = 8 THEN 9 ELSE 10]

\* self.severity_weights.get(severity, 0.5), in tenths
SeverityFactor10(severity) ==
    IF severity \in DOMAIN severity_weights10 THEN severity_weights10[severity] ELSE 5

critical_hours == 24
recent_days == 7
medium_days == 30
old_days == 90

critical_penalty_multiplier10 == 100000
recent_penalty_multiplier10 == 100
medium_penalty_multiplier10 == 10
old_penalty_multiplier10 == 3
ancient_penalty_multiplier10 == 1

crime_influence_radius == 100

\* ------------------------------------------------------------ geodesy

\* _calculate_time_decay, in tenths
_calculate_time_decay10(hours_ago) ==
    IF hours_ago <= critical_hours THEN critical_penalty_multiplier10
    ELSE IF hours_ago <= recent_days * 24 THEN recent_penalty_multiplier10
    ELSE IF hours_ago <= medium_days * 24 THEN medium_penalty_multiplier10
    ELSE IF hours_ago <= old_days * 24 THEN old_penalty_multiplier10
    ELSE ancient_penalty_multiplier10

\* _calculate_distance: haversine, whole metres (rounded down)
_calculate_distance(lat1, lng1, lat2, lng2) ==
    LET dlat == lat2 - lat1
        dlng == lng2 - lng1
    IN  FloorSqrt(HavSqNum * (dlat * dlat + dlng * dlng), HavSqDen)

\* _distance_point_to_line_segment: planar projection in degree space times
\* 111000, whole metres (rounded up).  param = dot / len_sq is compared with
\* 0 and 1 on the integers dot and len_sq; inside the segment the squared
\* distance is (A*D - B*C)^2 / len_sq.
_distance_point_to_line_segment(px, py, x1, y1, x2, y2) ==
    LET A == px - x1
        B == py - y1
        C == x2 - x1
        D == y2 - y1
        dot == A * C + B * D
        len_sq == C * C + D * D
        cross == A * D - B * C
    IN  IF len_sq = 0 THEN CeilSqrt(CellM * CellM * (A * A + B * B), 1)
        ELSE IF dot < 0 THEN CeilSqrt(CellM * CellM * (A * A + B * B), 1)
        ELSE IF dot > len_sq
             THEN CeilSqrt(CellM * CellM * ((px - x2) * (px - x2) + (py - y2) * (py - y2)), 1)
        ELSE CeilSqrt(CellM * CellM * cross * cross, len_sq)

\* ------------------------------------------------------------ data model

\* CrimePoint (crime_type and occurred_at are opaque to the router and are
\* left out); distance_to_route is the dataclass field the scoring writes.
CrimePoint(lat, lng, severity, hours_ago) ==
    [lat |-> lat, lng |-> lng, severity |-> severity, hours_ago |-> hours_ago,
     distance_to_route |-> 0]

Indices(s) == [i \in 1..Len(s) |-> i]

\* ------------------------------------------------------------ exposure model
\* An operator that needs a computed value several times takes it as an
\* argument of a helper operator, so that the value is written (and
\* evaluated) once; the helper carries the rest of the function body.

\* the loop body of _get_crimes_near_segment, given the distance of every
\* crime to the segment: the crimes within the influence radius, as indices
\* into crime_data (the returned list holds the same objects), and
\* crime_data after distance_to_route was written into them
\* a variant that writes distance_to_route only while it still holds its
\* default
MarkNearby_KeepFirst(crime_data, distances) ==
    [nearby |-> SelectSeq(Indices(crime_data),
                          LAMBDA i : distances[i] <= crime_influence_radius),
     crime_data |-> [i \in 1..Len(crime_data) |->
                        IF distances[i] <= crime_influence_radius
                               /\ crime_data[i].distance_to_route = 0
                        THEN [crime_data[i] EXCEPT !.distance_to_route = distances[i]]
                        ELSE crime_data[i]]]

MarkNearby(crime_data, distances) ==
    [nearby |-> SelectSeq(Indices(crime_data),
                          LAMBDA i : distances[i] <= crime_influence_radius),
     crime_data |-> [i \in 1..Len(crime_data) |->
                        IF distances[i] <= crime_influence_radius
                        THEN [crime_data[i] EXCEPT !.distance_to_route = distances[i]]
                        ELSE crime_data[i]]]

\* _get_crimes_near_segment
_get_crimes_near_segment(start_lat, start_lng, end_lat, end_lng, crime_data) ==
    MarkNearby(crime_data,
               [i \in 1..Len(crime_data) |->
                   _distance_point_to_line_segment(crime_data[i].lat, crime_data[i].lng,
                                                   start_lat, start_lng, end_lat, end_lng)])

\* A penalty is crit * 10^4 + std * 10^-2: crit collects the 24-hour terms
\* (time_factor 10000 * segment_distance * 1000), std the others (* 100).
ZeroPenalty == [crit |-> 0, std |-> 0]
AddPenalty(p, q) == [crit |-> p.crit + q.crit, std |-> p.std + q.std]
SumPenalties(terms) ==
    [crit |-> SumSeq([k \in 1..Len(terms) |-> terms[k].crit]),
     std |-> SumSeq([k \in 1..Len(terms) |-> terms[k].std])]

\* distance_factor = max(0, 1 - distance_to_route / crime_influence_radius),
\* in hundredths
DistanceFactor100(crime) ==
    Max2(0, 100 - (100 * crime.distance_to_route) \div crime_influence_radius)

\* one iteration of the loop of _calculate_segment_crime_penalty
CrimePenalty(crime, segment_distance) ==
    LET base_penalty == _calculate_time_decay10(crime.hours_ago)
                            * DistanceFactor100(crime)
                            * SeverityFactor10(crime.severity)
    IN  IF crime.hours_ago <= critical_hours
        THEN [crit |-> (base_penalty \div critical_penalty_multiplier10) * segment_distance,
              std |-> 0]
        ELSE [crit |-> 0, std |-> base_penalty]

\* the loop of _calculate_segment_crime_penalty over the nearby crimes
PenaltyOfNearby(segment_distance, near) ==
    [penalty |-> SumPenalties([k \in 1..Len(near.nearby) |->
                                  CrimePenalty(near.crime_data[near.nearby[k]],
                                               segment_distance)]),
     crime_data |-> near.crime_data]

\* _calculate_segment_crime_penalty: the penalty and crime_data afterwards
_calculate_segment_crime_penalty(start_lat, start_lng, end_lat, end_lng, crime_data) ==
    PenaltyOfNearby(
        _calculate_distance(start_lat, start_lng, end_lat, end_lng),
        _get_crimes_near_segment(start_lat, start_lng, end_lat, end_lng, crime_data))

\* the score without the min(100, ...) and max(0, ...) clamps
SegmentSafetyScore_Unclamped(n_crimes, crime_density1000, high_severity_crimes, recent_crimes) ==
    IF n_crimes = 0 THEN 100000
    ELSE 100000 - (crime_density1000 * 10 + high_severity_crimes * 20000
                       + recent_crimes * 30000)

\* the safety score of _create_route_segments, in thousandths:
\* min(100, crime_density*10 + high_severity_crimes*20 + recent_crimes*30)
SegmentSafetyScore(n_crimes, crime_density1000, high_severity_crimes, recent_crimes) ==
    IF n_crimes = 0 THEN 100000
    ELSE Max2(0, 100000 - Min2(100000, crime_density1000 * 10
                                         + high_severity_crimes * 20000
                                         + recent_crimes * 30000))

\* min((c.hours_ago for c in segment_crimes), default=999.0)
MinHours(hours) == IF hours = {} THEN 999 ELSE CHOOSE h \in hours : \A g \in hours : h <= g

\* lines 396-423: the RouteSegment of one loop iteration;
\* crime_density = len(segment_crimes) / max(distance / 1000, 0.001) is in
\* thousandths
SegmentMetrics(p, q, distance, segment_crimes, crime_density1000, high_severity_crimes, recent_crimes, penalty) ==
    [start_lat |-> p[1], start_lng |-> p[2], end_lat |-> q[1], end_lng |-> q[2],
     distance |-> distance,
     safety_score |-> SegmentSafetyScore(Len(segment_crimes), crime_density1000,
                                         high_severity_crimes, recent_crimes),
     crime_density |-> crime_density1000,
     high_severity_crimes |-> high_severity_crimes,
     recent_crimes |-> recent_crimes,
     critical_crimes_24h |-> recent_crimes,
     hours_to_nearest_crime |->
         MinHours({segment_crimes[k].hours_ago : k \in 1..Len(segment_crimes)}),
     crime_density_score |-> Min2(1000, crime_density1000 \div 10),
     edge_weight |-> AddPenalty([crit |-> 0, std |-> 100 * distance], penalty)]

\* lines 396-410, given the segment's crimes and the result of the penalty call
SegmentOfCrimes(p, q, distance, segment_crimes, pen) ==
    [segment |->
        SegmentMetrics(p, q, distance, segment_crimes,
                       (Len(segment_crimes) * 1000000) \div Max2(distance, 1),
                       Len(SelectSeq(segment_crimes, LAMBDA c : c.severity >= 7)),
                       Len(SelectSeq(segment_crimes, LAMBDA c : c.hours_ago <= 24)),
                       pen.penalty),
     crime_data |-> pen.crime_data]

\* lines 391-410, given the result of _get_crimes_near_segment
SegmentOfNearby(p, q, distance, near) ==
    SegmentOfCrimes(p, q, distance,
                    [k \in 1..Len(near.nearby) |-> near.crime_data[near.nearby[k]]],
                    _calculate_segment_crime_penalty(p[1], p[2], q[1], q[2],
                                                     near.crime_data))

\* one iteration of the loop of _create_route_segments: the segment and
\* crime_data afterwards
CreateSegment(p, q, crime_data) ==
    SegmentOfNearby(p, q, _calculate_distance(p[1], p[2], q[1], q[2]),
                    _get_crimes_near_segment(p[1], p[2], q[1], q[2], crime_data))

RECURSIVE SegmentsFrom(_, _, _, _)
AppendSegment(path_coordinates, i, segments, created) ==
    SegmentsFrom(path_coordinates, i + 1, Append(segments, created.segment),
                 created.crime_data)
SegmentsFrom(path_coordinates, i, segments, crime_data) ==
    IF i >= Len(path_coordinates) THEN [segments |-> segments, crime_data |-> crime_data]
    ELSE AppendSegment(path_coordinates, i, segments,
                       CreateSegment(path_coordinates[i], path_coordinates[i + 1],
                                     crime_data))

\* _create_route_segments: the segments and crime_data afterwards
_create_route_segments(path_coordinates, crime_data) ==
    SegmentsFrom(path_coordinates, 1, <<>>, crime_data)

\* one term of the loop of _calculate_segment_safety, in thousandths:
\* time_factor * severity_factor * distance_factor * 20
SegmentSafetyTerm(crime) ==
    _calculate_time_decay10(crime.hours_ago) * SeverityFactor10(crime.severity)
        * DistanceFactor100(crime) * 2

\* _calculate_segment_safety, in thousandths: the score _path_to_segments
\* gives a segment from its nearby crimes
_calculate_segment_safety(crimes) ==
    IF crimes = <<>> THEN 100000
    ELSE Max2(0, 100000 - SumSeq([k \in 1..Len(crimes) |-> SegmentSafetyTerm(crimes[k])]))

\* ------------------------------------------------------------ oracle replies

\* What _get_mapbox_route returns: None (a non-200 status, a timeout or any
\* other exception of the request) or the decoded JSON body, whose geometry
\* lists [lng, lat] pairs.
None == [kind |-> "None"]
MapboxJson(routes) == [kind |-> "json", routes |-> routes]
MapboxRoute(coordinates, distance, duration) ==
    [geometry |-> [coordinates |-> coordinates], distance |-> distance,
     duration |-> duration]

\* _parse_mapbox_route: [lng, lat] pairs to [lat, lng] pairs; routes[0] of an
\* empty routes list raises IndexError
_parse_mapbox_route(mapbox_response) ==
    IF mapbox_response.kind = "None" THEN [exc |-> "none", coordinates |-> <<>>]
    ELSE IF mapbox_response.routes = <<>> THEN [exc |-> "IndexError", coordinates |-> <<>>]
    ELSE LET geometry == mapbox_response.routes[1].geometry
         IN  [exc |-> "none",
              coordinates |-> [k \in 1..Len(geometry.coordinates) |->
                                  <<geometry.coordinates[k][2], geometry.coordinates[k][1]>>]]

\* ------------------------------------------------------------ route building

RECURSIVE PenaltiesFrom(_, _, _, _)
AddSegmentPenalty(segments, i, total, r) ==
    PenaltiesFrom(segments, i + 1, AddPenalty(total, r.penalty), r.crime_data)
\* the generator of total_crime_penalty: one penalty call per segment
PenaltiesFrom(segments, i, total, crime_data) ==
    IF i > Len(segments) THEN [penalty |-> total, crime_data |-> crime_data]
    ELSE AddSegmentPenalty(segments, i, total,
             _calculate_segment_crime_penalty(
                 segments[i].start_lat, segments[i].start_lng,
                 segments[i].end_lat, segments[i].end_lng, crime_data))

\* total_safety_score of _build_route_from_response, in thousandths
TotalSafetyScore(segments, total_distance) ==
    IF total_distance > 0
    THEN SumSeq([k \in 1..Len(segments) |-> segments[k].safety_score * segments[k].distance])
             \div total_distance
    ELSE 0

\* lines 181-192 and 215: the critical crime zones of a route
CriticalCrimeZones(crime_data) ==
    LET critical_crimes ==
            SelectSeq([k \in 1..Len(crime_data) |->
                          [lat |-> crime_data[k].lat, lng |-> crime_data[k].lng,
                           severity |-> crime_data[k].severity,
                           hours_ago |-> crime_data[k].hours_ago]],
                      LAMBDA z : z.hours_ago <= 24 /\ z.severity >= 7)
    IN  SubSeq(critical_crimes, 1, Min2(20, Len(critical_crimes)))

\* lines 173-216, given the segments and the result of the penalty sum
RouteOfSegments(route, crime_data, route_type, path_coordinates, segments, penalties) ==
    [exc |-> "none",
     crime_data |-> penalties.crime_data,
     route |->
        [route_type |-> route_type,
         total_distance |-> route.distance,
         total_duration |-> route.duration,
         total_safety_score |-> TotalSafetyScore(segments, route.distance),
         total_crime_penalty |-> penalties.penalty,
         path_coordinates |-> path_coordinates,
         segments |-> segments,
         critical_crime_zones |-> CriticalCrimeZones(crime_data)]]

\* lines 173-216, given the result of _create_route_segments
RouteOfCreated(route, crime_data, route_type, path_coordinates, created) ==
    RouteOfSegments(route, crime_data, route_type, path_coordinates, created.segments,
                    PenaltiesFrom(created.segments, 1, ZeroPenalty, created.crime_data))

\* lines 167-216, given the result of _parse_mapbox_route
RouteOfParsed(mapbox_response, crime_data, route_type, parsed) ==
    IF parsed.exc # "none" THEN [exc |-> parsed.exc, crime_data |-> crime_data]
    ELSE IF parsed.coordinates = <<>>
    THEN [exc |-> "No route found", crime_data |-> crime_data]
    ELSE RouteOfCreated(mapbox_response.routes[1], crime_data, route_type,
                        parsed.coordinates,
                        _create_route_segments(parsed.coordinates, crime_data))

\* _build_route_from_response: the route dictionary (or the exception it
\* raises) and crime_data afterwards
_build_route_from_response(mapbox_response, crime_data, route_type) ==
    RouteOfParsed(mapbox_response, crime_data, route_type,
                  _parse_mapbox_route(mapbox_response))

\* ------------------------------------------------------------ detour waypoints

\* a coordinate in waypoint units (1/111000 degree)
ToWaypointUnits(cells) == CellM * cells

\* the offsets 0.002 degree and the 200 m test of _get_crime_aware_waypoints
DetourOffset == 222
MidpointRadius == 200

\* _get_crime_aware_waypoints without the len(critical_zones) < 10 test
_get_crime_aware_waypoints_NoCap(start_lat, start_lng, end_lat, end_lng, crime_data) ==
    LET critical_zones ==
            SelectSeq(crime_data, LAMBDA crime : crime.hours_ago <= 24 /\ crime.severity >= 7)
        mid_lat == (start_lat + end_lat) \div 2
        mid_lng == (start_lng + end_lng) \div 2
        is_safe == \A k \in 1..Len(critical_zones) :
                      ~ (_calculate_distance(mid_lat, mid_lng,
                                             critical_zones[k].lat, critical_zones[k].lng)
                            < MidpointRadius)
        offset_lat == ToWaypointUnits(mid_lat)
                          + (IF start_lat < end_lat THEN DetourOffset ELSE -DetourOffset)
        offset_lng == ToWaypointUnits(mid_lng)
                          + (IF start_lng < end_lng THEN DetourOffset ELSE -DetourOffset)
        first == <<ToWaypointUnits(start_lng), ToWaypointUnits(start_lat)>>
        last == <<ToWaypointUnits(end_lng), ToWaypointUnits(end_lat)>>
    IN  IF critical_zones # <<>> /\ ~ is_safe
        THEN <<first, <<offset_lng, offset_lat>>, last>>
        ELSE <<first, last>>

\* _get_crime_aware_waypoints appending both candidate offsets (+ and -)
\* instead of one
_get_crime_aware_waypoints_BothCandidates(start_lat, start_lng, end_lat, end_lng, crime_data) ==
    LET critical_zones ==
            SelectSeq(crime_data, LAMBDA crime : crime.hours_ago <= 24 /\ crime.severity >= 7)
        mid_lat == (start_lat + end_lat) \div 2
        mid_lng == (start_lng + end_lng) \div 2
        is_safe == \A k \in 1..Len(critical_zones) :
                      ~ (_calculate_distance(mid_lat, mid_lng,
                                             critical_zones[k].lat, critical_zones[k].lng)
                            < MidpointRadius)
        first == <<ToWaypointUnits(start_lng), ToWaypointUnits(start_lat)>>
        last == <<ToWaypointUnits(end_lng), ToWaypointUnits(end_lat)>>
    IN  IF critical_zones # <<>> /\ Len(critical_zones) < 10 /\ ~ is_safe
        THEN <<first,
               <<ToWaypointUnits(mid_lng) + DetourOffset, ToWaypointUnits(mid_lat) + DetourOffset>>,
               <<ToWaypointUnits(mid_lng) - DetourOffset, ToWaypointUnits(mid_lat) - DetourOffset>>,
               last>>
        ELSE <<first, last>>

\* _get_crime_aware_waypoints: (lng, lat) tuples for the oracle.  The
\* midpoint (start + end) / 2 is taken on cell coordinates; the requests of
\* the model have start + end even in both axes.
_get_crime_aware_waypoints(start_lat, start_lng, end_lat, end_lng, crime_data) ==
    LET critical_zones ==
            SelectSeq(crime_data, LAMBDA crime : crime.hours_ago <= 24 /\ crime.severity >= 7)
        mid_lat == (start_lat + end_lat) \div 2
        mid_lng == (start_lng + end_lng) \div 2
        is_safe == \A k \in 1..Len(critical_zones) :
                      ~ (_calculate_distance(mid_lat, mid_lng,
                                             critical_zones[k].lat, critical_zones[k].lng)
                            < MidpointRadius)
        offset_lat == ToWaypointUnits(mid_lat)
                          + (IF start_lat < end_lat THEN DetourOffset ELSE -DetourOffset)
        offset_lng == ToWaypointUnits(mid_lng)
                          + (IF start_lng < end_lng THEN DetourOffset ELSE -DetourOffset)
        first == <<ToWaypointUnits(start_lng), ToWaypointUnits(start_lat)>>
        last == <<ToWaypointUnits(end_lng), ToWaypointUnits(end_lat)>>
    IN  IF critical_zones # <<>> /\ Len(critical_zones) < 10 /\ ~ is_safe
        THEN <<first, <<offset_lng, offset_lat>>, last>>
        ELSE <<first, last>>

\* ------------------------------------------------------------ density grid

\* 100 m in cells: lat_per_100m = 100 / 111000 degree, and lng_per_100m the
\* same where cos(latitude) rounds away (the model's boxes lie within 0.003
\* degree of the equator and no longitude quotient is a whole number)
CellsPer100m == 100 \div CellM

\* int(n / d) of Python for d > 0: truncation toward zero
TruncDiv(n, d) == IF n >= 0 THEN n \div d ELSE -((-n) \div d)

\* lines 765-768: the grid dimensions of a bounding box
GridDimensions(min_lat, min_lng, max_lat, max_lng) ==
    [grid_lat_cells |-> TruncDiv(max_lat - min_lat, CellsPer100m) + 1,
     grid_lng_cells |-> TruncDiv(max_lng - min_lng, CellsPer100m) + 1]

\* lines 789-792: density_map[grid_key] += weighted_contribution.  The
\* dictionary is the list of its items in insertion order; densities are in
\* hundredths.
AddContribution(density_map, grid_key, weighted_contribution) ==
    IF \E k \in 1..Len(density_map) : density_map[k].grid_key = grid_key
    THEN [k \in 1..Len(density_map) |->
             IF density_map[k].grid_key = grid_key
             THEN [density_map[k] EXCEPT !.density = @ + weighted_contribution]
             ELSE density_map[k]]
    ELSE Append(density_map, [grid_key |-> grid_key, density |-> weighted_contribution])

\* the loop body without the "skip crimes outside the grid" test
GridContribution_NoSkip(density_map, crime, grid_lat, grid_lng, dims) ==
    AddContribution(density_map, <<grid_lat, grid_lng>>,
                    _calculate_time_decay10(crime.hours_ago) * SeverityFactor10(crime.severity))

\* lines 779-792: the loop body, given the crime's grid coordinates
GridContribution(density_map, crime, grid_lat, grid_lng, dims) ==
    IF \/ grid_lat < 0 \/ grid_lat >= dims.grid_lat_cells
       \/ grid_lng < 0 \/ grid_lng >= dims.grid_lng_cells
    THEN density_map
    ELSE AddContribution(density_map, <<grid_lat, grid_lng>>,
                         _calculate_time_decay10(crime.hours_ago)
                             * SeverityFactor10(crime.severity))

RECURSIVE DensityFrom(_, _, _, _, _, _)
\* lines 774-792: the loop over crime_data
DensityFrom(crime_data, i, density_map, min_lat, min_lng, dims) ==
    IF i > Len(crime_data) THEN density_map
    ELSE DensityFrom(crime_data, i + 1,
                     GridContribution(density_map, crime_data[i],
                                      TruncDiv(crime_data[i].lat - min_lat, CellsPer100m),
                                      TruncDiv(crime_data[i].lng - min_lng, CellsPer100m),
                                      dims),
                     min_lat, min_lng, dims)

\* _calculate_crime_density_map (coordinates in cells)
_calculate_crime_density_map(min_lat, min_lng, max_lat, max_lng, crime_data) ==
    DensityFrom(crime_data, 1, <<>>, min_lat, min_lng,
                GridDimensions(min_lat, min_lng, max_lat, max_lng))

\* lines 817-835: the response of get_crime_density_heatmap; cell
\* coordinates in cells, density and intensity in hundredths
HeatmapResponse(density_map, min_lat, min_lng, crime_data) ==
    [status |-> "heatmap",
     heatmap_data |->
         [k \in 1..Len(density_map) |->
             [lat |-> min_lat + density_map[k].grid_key[1] * CellsPer100m,
              lng |-> min_lng + density_map[k].grid_key[2] * CellsPer100m,
              density |-> density_map[k].density,
              intensity |-> Min2(100, density_map[k].density \div 10)]],
     total_crimes |-> Len(crime_data),
     critical_crimes_24h |-> Len(SelectSeq(crime_data, LAMBDA c : c.hours_ago <= 24)),
     high_severity_crimes |-> Len(SelectSeq(crime_data, LAMBDA c : c.severity >= 7))]

\* ------------------------------------------------------------ blocked areas

\* one entry of the list of get_blocked_areas (lines 909-917)
BlockedArea(crime) ==
    [lat |-> crime.lat, lng |-> crime.lng, severity |-> crime.severity,
     hours_ago |-> crime.hours_ago, blocked_radius |-> 100, penalty_level |-> "CRITICAL"]

\* a variant that keeps one entry per coordinate pair
get_blocked_areas_Merged(crime_data) ==
    LET critical_crimes == SelectSeq(crime_data, LAMBDA c : c.hours_ago <= 24)
        first == {k \in 1..Len(critical_crimes) :
                     \A j \in 1..(k - 1) : \/ critical_crimes[j].lat # critical_crimes[k].lat
                                           \/ critical_crimes[j].lng # critical_crimes[k].lng}
        RECURSIVE Kept(_)
        Kept(k) == IF k > Len(critical_crimes) THEN <<>>
                   ELSE (IF k \in first THEN <<BlockedArea(critical_crimes[k])>> ELSE <<>>)
                            \o Kept(k + 1)
    IN  Kept(1)

\* lines 905-919 of get_blocked_areas, given the fetched crime_data
get_blocked_areas(crime_data) ==
    LET critical_crimes == SelectSeq(crime_data, LAMBDA c : c.hours_ago <= 24)
    IN  [k \in 1..Len(critical_crimes) |-> BlockedArea(critical_crimes[k])]

\* ------------------------------------------------------------ incremental sync

\* a record of recent_data: its incident id (record[15]; 0 when empty) and
\* what processing it does: _process_sf_police_record and CrimeReport(...)
\* give a stored report, _process_sf_police_record returns None (line 244),
\* or CrimeReport(...) raises (line 151).  _fetch_recent_data returns only
\* records of 35 or more fields (line 104).
Rec(incident_id, processing) == [incident_id |-> incident_id, processing |-> processing]

\* _filter_new_records
_filter_new_records(api_records, existing_ids) ==
    SelectSeq(api_records,
              LAMBDA record : record.incident_id # 0 /\ record.incident_id \notin existing_ids)

\* _process_and_store_new_records, given whether session.commit() succeeds;
\* source_ids are the ids the commit wrote
_process_and_store_new_records(new_records, commit_ok) ==
    IF commit_ok
    THEN [added |-> Len(SelectSeq(new_records, LAMBDA r : r.processing = "stored")),
          errors |-> Len(SelectSeq(new_records, LAMBDA r : r.processing = "raises")),
          source_ids |-> {new_records[k].incident_id :
                             k \in {j \in 1..Len(new_records) : new_records[j].processing = "stored"}}]
    ELSE [added |-> 0, errors |-> Len(new_records), source_ids |-> {}]

\* lines 46-70 of sync_new_data, given recent_data, new_records and the
\* result of _process_and_store_new_records (unused when new_records is empty)
SyncResult(recent_data, new_records, results) ==
    IF new_records = <<>>
    THEN [success |-> TRUE, records_processed |-> Len(recent_data), records_added |-> 0,
          records_skipped |-> Len(recent_data), message |-> "No new data available"]
    ELSE [success |-> TRUE, records_processed |-> Len(recent_data),
          records_added |-> results.added,
          records_skipped |-> Len(recent_data) - Len(new_records),
          new_records |-> SubSeq(new_records, 1, Min2(5, Len(new_records)))]

\* lines 72-77: the result of sync_new_data after an exception
SyncFailure == [success |-> FALSE, error |-> "exception"]
\* no sync_new_data call has returned yet
NoSyncResult == [success |-> FALSE, error |-> "no result"]

\* ------------------------------------------------------------ real-time alerts

\* Coordinates of the alerts are in units of 0.0001 degree, times in hours,
\* radii and distances in metres.

\* round(n / d) as Python rounds: halves go to the even neighbour
RoundHalfEven(n, d) ==
    IF 2 * (n % d) < d THEN n \div d
    ELSE IF 2 * (n % d) > d THEN (n \div d) + 1
    ELSE IF (n \div d) % 2 = 0 THEN n \div d ELSE (n \div d) + 1

\* round(x / precision) * precision with precision = 0.001
RoundToPrecision(units) == 10 * RoundHalfEven(units, 10)

\* RealTimeAlerts._calculate_distance: haversine, whole metres (rounded up);
\* 0.0001 degree is 11.12 m
AlertSqNum == 12364
AlertSqDen == 100
AlertDistance(lat1, lng1, lat2, lng2) ==
    CeilSqrt(AlertSqNum * ((lat2 - lat1) * (lat2 - lat1) + (lng2 - lng1) * (lng2 - lng1)),
             AlertSqDen)

alert_radius == 200
recent_hours == 24

\* a CrimeReport row, and the test "crime.lat and crime.lng"
Report(id, lat, lng, severity, crime_type, occurred_at) ==
    [id |-> id, lat |-> lat, lng |-> lng, severity |-> severity,
     crime_type |-> crime_type, occurred_at |-> occurred_at]
HasCoordinates(crime) == crime.lat # 0 /\ crime.lng # 0

\* the Alert dataclass; alert_id is the prefix, the key and the timestamp
Alert(prefix, key, alert_type, severity, lat, lng, radius, hours, safety_impact, utcnow) ==
    [alert_id |-> <<prefix, key, utcnow>>, alert_type |-> alert_type, severity |-> severity,
     lat |-> lat, lng |-> lng, radius |-> radius, created_at |-> utcnow,
     expires_at |-> utcnow + hours, safety_impact |-> safety_impact]

\* _get_recent_crimes
_get_recent_crimes(table, utcnow) ==
    SelectSeq(table, LAMBDA crime : crime.occurred_at >= utcnow - recent_hours)

\* _group_crimes_by_location: the dictionary as a list of groups in
\* insertion order
AddToGroup(groups, crime, location) ==
    IF \E k \in 1..Len(groups) : groups[k].location = location
    THEN [k \in 1..Len(groups) |->
             IF groups[k].location = location
             THEN [groups[k] EXCEPT !.crimes = Append(@, crime)] ELSE groups[k]]
    ELSE Append(groups, [location |-> location, crimes |-> <<crime>>])
RECURSIVE GroupsFrom(_, _, _)
GroupsFrom(crimes, i, groups) ==
    IF i > Len(crimes) THEN groups
    ELSE GroupsFrom(crimes, i + 1,
                    IF HasCoordinates(crimes[i])
                    THEN AddToGroup(groups, crimes[i],
                                    <<RoundToPrecision(crimes[i].lat),
                                      RoundToPrecision(crimes[i].lng)>>)
                    ELSE groups)
_group_crimes_by_location(crimes) == GroupsFrom(crimes, 1, <<>>)

\* _calculate_alert_severity, given the two counts
SeverityOfCounts(high_severity_count, total_count) ==
    IF high_severity_count >= 2 \/ total_count >= 5 THEN "critical"
    ELSE IF high_severity_count >= 1 \/ total_count >= 3 THEN "high"
    ELSE IF total_count >= 2 THEN "medium"
    ELSE "low"
_calculate_alert_severity(crimes) ==
    IF crimes = <<>> THEN "low"
    ELSE SeverityOfCounts(Len(SelectSeq(crimes, LAMBDA c : c.severity >= 7)), Len(crimes))

\* the Alert of lines 182-195 for one group of three or more crimes
HighCrimeAlert(g, utcnow) ==
    Alert("high_crime", g.location, "high_crime_area", _calculate_alert_severity(g.crimes),
          g.location[1], g.location[2], alert_radius, 6, Min2(50, Len(g.crimes) * 10), utcnow)
\* the loop of _check_high_crime_areas over the groups
HighCrimeAlertsOf(groups, utcnow) ==
    [k \in 1..Len(groups) |-> HighCrimeAlert(groups[k], utcnow)]
\* _check_high_crime_areas
_check_high_crime_areas(recent_crimes, utcnow) ==
    HighCrimeAlertsOf(SelectSeq(_group_crimes_by_location(recent_crimes),
                                LAMBDA g : Len(g.crimes) >= 3),
                      utcnow)

\* the Alert of lines 212-225 for one crime of severity 7 or more
SeverityAlert(crime, utcnow) ==
    Alert("severity", crime.id, "severity_increase",
          IF crime.severity >= 9 THEN "high" ELSE "medium",
          crime.lat, crime.lng, alert_radius, 12, crime.severity * 10, utcnow)
SeverityAlertsOf(crimes, utcnow) ==
    [k \in 1..Len(crimes) |-> SeverityAlert(crimes[k], utcnow)]
\* _check_severity_increases
_check_severity_increases(recent_crimes, utcnow) ==
    SeverityAlertsOf(SelectSeq(recent_crimes,
                               LAMBDA c : c.severity >= 7 /\ HasCoordinates(c)),
                     utcnow)

\* the Alert of lines 248-261 for one location, given its safety_percentage
SafetyDeclineAlert(location, safety_percentage, utcnow) ==
    Alert("safety_decline", location, "safety_decline",
          IF safety_percentage < 20 THEN "high" ELSE "medium",
          location[1], location[2], alert_radius, 8, 100 - safety_percentage, utcnow)
SafetyDeclineAlertsOf(groups, safety, utcnow) ==
    [k \in 1..Len(groups) |->
        SafetyDeclineAlert(groups[k].location, safety[groups[k].location], utcnow)]
\* _check_safety_declines, given the safety_percentage that
\* SafetyAnalyzer.analyze_point_safety finds at each location
_check_safety_declines(recent_crimes, safety, utcnow) ==
    SafetyDeclineAlertsOf(SelectSeq(_group_crimes_by_location(recent_crimes),
                                    LAMBDA g : safety[g.location] < 30),
                          safety, utcnow)

\* the Alert of lines 280-293 for one high-impact crime
RouteBlockAlert(crime, utcnow) ==
    Alert("route_block", crime.id, "route_blocked",
          IF crime.severity >= 9 THEN "critical" ELSE "high",
          crime.lat, crime.lng, alert_radius * 2, 4, crime.severity * 15, utcnow)
RouteBlockAlertsOf(crimes, utcnow) ==
    [k \in 1..Len(crimes) |-> RouteBlockAlert(crimes[k], utcnow)]
\* _check_route_blockages
_check_route_blockages(recent_crimes, utcnow) ==
    RouteBlockAlertsOf(
        SelectSeq(recent_crimes,
                  LAMBDA crime : /\ HasCoordinates(crime)
                                 /\ \/ crime.severity >= 8
                                    \/ crime.crime_type \in {"Robbery", "Assault", "Motor Vehicle Theft"}),
        utcnow)

\* lines 81-85 of check_for_new_alerts
NewAlerts(recent_crimes, safety, utcnow) ==
    _check_high_crime_areas(recent_crimes, utcnow)
        \o _check_severity_increases(recent_crimes, utcnow)
        \o _check_safety_declines(recent_crimes, safety, utcnow)
        \o _check_route_blockages(recent_crimes, utcnow)

\* lines 88-89: active_alerts[alert.alert_id] = alert, the dictionary as a
\* list in insertion order
RECURSIVE RegisterAll(_, _)
RegisterAll(alerts, new_alerts) ==
    IF new_alerts = <<>> THEN alerts
    ELSE RegisterAll(
             IF \E k \in 1..Len(alerts) : alerts[k].alert_id = Head(new_alerts).alert_id
             THEN [k \in 1..Len(alerts) |->
                      IF alerts[k].alert_id = Head(new_alerts).alert_id
                      THEN Head(new_alerts) ELSE alerts[k]]
             ELSE Append(alerts, Head(new_alerts)),
             Tail(new_alerts))

\* _update_alert_zones: the new value of alert_zones
AlertZone(alert) ==
    [lat |-> alert.lat, lng |-> alert.lng, radius |-> alert.radius,
     alert_types |-> <<alert.alert_type>>, severity |-> alert.severity, is_active |-> TRUE]
AlertZonesOf(alerts) == [k \in 1..Len(alerts) |-> AlertZone(alerts[k])]
_update_alert_zones(alerts, utcnow) ==
    AlertZonesOf(SelectSeq(alerts, LAMBDA alert : alert.expires_at > utcnow))

\* _is_alert_in_range
_is_alert_in_range(alert, lat, lng, radius) ==
    AlertDistance(alert.lat, alert.lng, lat, lng) <= alert.radius + radius

\* get_active_alerts
get_active_alerts(alerts, lat, lng, radius) ==
    SelectSeq(alerts, LAMBDA alert : _is_alert_in_range(alert, lat, lng, radius))

\* _get_safety_recommendation
_get_safety_recommendation(alerts) ==
    IF alerts = <<>> THEN "Route appears safe"
    ELSE IF \E k \in 1..Len(alerts) : alerts[k].severity = "critical"
         THEN "AVOID: Critical safety issues detected"
    ELSE IF \E k \in 1..Len(alerts) : alerts[k].severity = "high"
         THEN "CAUTION: High safety concerns - consider alternative route"
    ELSE "MODERATE: Some safety concerns - proceed with caution"

\* the loop of check_route_safety from point i (1-based) on: route_alerts
\* and blocked_segments (indices 0-based, as in the code)
RECURSIVE RouteScan(_, _, _, _, _)
RouteScanStep(alerts, route_points, i, found, point_alerts) ==
    RouteScan(alerts, route_points, i + 1,
              [route_alerts |-> found.route_alerts \o point_alerts,
               blocked_segments |->
                   IF \E k \in 1..Len(point_alerts) : point_alerts[k].alert_type = "route_blocked"
                   THEN Append(found.blocked_segments,
                               [start_index |-> Max2(0, (i - 1) - 1),
                                end_index |-> Min2(Len(route_points) - 1, (i - 1) + 1)])
                   ELSE found.blocked_segments],
              <<>>)
RouteScan(alerts, route_points, i, found, unused) ==
    IF i > Len(route_points) THEN found
    ELSE RouteScanStep(alerts, route_points, i, found,
                       get_active_alerts(alerts, route_points[i][1], route_points[i][2],
                                         alert_radius))

\* lines 139-155: the dictionary of one alert and the response
AlertDict(alert) ==
    [type |-> alert.alert_type, severity |-> alert.severity, lat |-> alert.lat,
     lng |-> alert.lng, radius |-> alert.radius]
RouteSafetyResponse(found, utcnow) ==
    [status |-> "route_safety", asked_at |-> utcnow,
     has_alerts |-> Len(found.route_alerts) > 0,
     alerts |-> [k \in 1..Len(found.route_alerts) |-> AlertDict(found.route_alerts[k])],
     blocked_segments |-> found.blocked_segments,
     safety_recommendation |-> _get_safety_recommendation(found.route_alerts)]
check_route_safety(alerts, route_points, utcnow) ==
    RouteSafetyResponse(RouteScan(alerts, route_points, 1,
                                  [route_alerts |-> <<>>, blocked_segments |-> <<>>], <<>>),
                        utcnow)

\* ------------------------------------------------------------ Dijkstra

\* float('inf'), and None in the previous dictionary
Infinity == 1000000
NoNode == -1

\* heapq.heappop: the least (distance, node) tuple of the queue
HeapMin(pq) ==
    CHOOSE e \in pq : \A f \in pq : e[1] < f[1] \/ (e[1] = f[1] /\ e[2] <= f[2])

\* lines 634-640: the loop over graph[current], from its k-th edge on; st
\* holds distances, previous and pq
RECURSIVE Relax(_, _, _, _, _)
Relax(edges, k, current_dist, current, st) ==
    IF k > Len(edges) THEN st
    ELSE Relax(edges, k + 1, current_dist, current,
               IF current_dist + edges[k][2] < st.distances[edges[k][1]]
               THEN [distances |-> [st.distances EXCEPT ![edges[k][1]] = current_dist + edges[k][2]],
                     previous |-> [st.previous EXCEPT ![edges[k][1]] = current],
                     pq |-> st.pq \cup {<<current_dist + edges[k][2], edges[k][1]>>}]
               ELSE st)

\* lines 625-640: the while loop
RECURSIVE DijkstraLoop(_, _, _)
DijkstraPopped(graph, end, top, st) ==
    IF top[2] = end THEN st
    ELSE IF top[1] > st.distances[top[2]] THEN DijkstraLoop(graph, end, st)
    ELSE DijkstraLoop(graph, end, Relax(graph[top[2]], 1, top[1], top[2], st))
DijkstraLoop(graph, end, st) ==
    IF st.pq = {} THEN st
    ELSE DijkstraPopped(graph, end, HeapMin(st.pq), [st EXCEPT !.pq = @ \ {HeapMin(st.pq)}])

\* lines 642-649: the path, read backwards from end
RECURSIVE PathTo(_, _)
PathTo(previous, current) ==
    IF current = NoNode THEN <<>>
    ELSE Append(PathTo(previous, previous[current]), current)

\* _dijkstra; the two weights are in tenths
_dijkstra(graph, start, end, safety_weight10, distance_weight10) ==
    PathTo(DijkstraLoop(graph, end,
                        [distances |-> [node \in DOMAIN graph |->
                                           IF node = start THEN 0 ELSE Infinity],
                         previous |-> [node \in DOMAIN graph |-> NoNode],
                         pq |-> {<<0, start>>}]).previous,
           end)

_dijkstra_safest(graph, start, end) == _dijkstra(graph, start, end, 8, 2)
_dijkstra_fastest(graph, start, end) == _dijkstra(graph, start, end, 2, 8)
_dijkstra_balanced(graph, start, end) == _dijkstra(graph, start, end, 5, 5)

\* ------------------------------------------------------------ inputs

\* bounding boxes of heatmap requests (cells): one with crimes just south of
\* min_lat, one with crimes just west of min_lng, one whose crimes lie
\* inside the box or beyond its last cell
HeatmapRequests ==
    {[min_lat |-> 2, min_lng |-> 3, max_lat |-> 5, max_lng |-> 6],
     [min_lat |-> -1, min_lng |-> 5, max_lat |-> 2, max_lng |-> 8],
     [min_lat |-> 0, min_lng |-> 3, max_lat |-> 3, max_lng |-> 6]}


\* routing requests (cells); start + end is even in both axes
Requests ==
    {[start_lat |-> 0, start_lng |-> 0, end_lat |-> 0, end_lng |-> 8],
     [start_lat |-> -4, start_lng |-> 8, end_lat |-> 4, end_lng |-> 0]}

\* rows of the crimes table (lat, lng, severity, hours_ago): crimes 50 m,
\* exactly 100 m and 200 m north of the midpoint of the straight line from
\* start to end, aged 2 hours, exactly 24 hours, 5 days and 45 days; one
\* row outside every query box and one row older than 90 days
Row(lat, lng, severity, hours_ago) ==
    [lat |-> lat, lng |-> lng, severity |-> severity, hours_ago |-> hours_ago]
CrimeRows ==
    {Row(1, 4, 9, 2), Row(1, 4, 7, 120), Row(2, 4, 5, 1080), Row(4, 4, 9, 24),
     Row(60, 4, 9, 2), Row(1, 4, 9, 2400)}
Stores == {S \in SUBSET CrimeRows : Cardinality(S) <= MaxCrimes}
\* the tables of the blocked-area requests: also a second crime of the last
\* day at the coordinates of the first row
\* crime lists for direct calls of _get_crime_aware_waypoints: up to
\* MaxCritical crimes of the last day with severity 9, 200 m from the
\* midpoint, followed by nothing, by such a crime 50 m from the midpoint, or
\* by a five-day-old crime there
MaxCritical == 11
WaypointCrimeLists ==
    {[k \in 1..n |-> CrimePoint(4, 4, 9, 2)] \o near :
        n \in 0..MaxCritical,
        near \in {<<>>, <<CrimePoint(1, 4, 9, 2)>>, <<CrimePoint(1, 4, 7, 120)>>}}
\* the run_sync coroutines, and the lists _fetch_recent_data may return:
\* records without an incident id, with the ids 1 and 2, and records with
\* id 2 that do not give a stored report
MaxTasks == 2
SyncTasks == 1..MaxTasks
MaxFetched == 2
FetchedRecords ==
    {Rec(0, "stored"), Rec(1, "stored"), Rec(2, "stored"), Rec(2, "none"), Rec(2, "raises")}
FetchedLists == UNION {[1..n -> FetchedRecords] : n \in 0..MaxFetched}
\* the CrimeReport tables of the alerts: a robbery, a theft and an old
\* assault within one 0.001-degree cell, a robbery at longitude 0, a burglary
\* 660 m away
AlertTables ==
    {<<Report(3, 97, 102, 3, "Assault", -18)>>,
     <<Report(1, 100, 100, 9, "Robbery", 0), Report(2, 104, 103, 5, "Larceny Theft", -2),
       Report(3, 97, 102, 3, "Assault", -18)>>,
     <<Report(2, 104, 103, 5, "Larceny Theft", -2), Report(4, 100, 0, 9, "Robbery", 0)>>,
     <<Report(1, 100, 100, 9, "Robbery", 0), Report(5, 160, 100, 8, "Burglary", 0)>>}
\* the safety percentages analyze_point_safety may find
SafetyPercentages == {15, 60}
\* the clock advances by TickHours up to MaxClock; check_for_new_alerts runs
\* at up to MaxChecks different times
TickHours == 4
MaxClock == 8
MaxChecks == 2
\* the points and radii (metres) of the queries, and the routes
QueryPoints == {<<100, 100>>, <<160, 100>>}
QueryRadii == {1000, 200}
AlertRoutes == {<<>>, <<<<100, 100>>, <<160, 100>>>>}
\* the graphs of _build_crime_weighted_graph for up to MaxNodes waypoints:
\* node i has an edge to each of the next four nodes, in order; the edge
\* weights (distance + crime_penalty) are drawn from EdgeWeights
MaxNodes == 3
EdgeWeights == {0, 2}
ForwardEdges(n) == {e \in (0..(n - 1)) \X (0..(n - 1)) : e[1] < e[2] /\ e[2] <= Min2(e[1] + 4, n - 1)}
GraphOf(n, weight) ==
    [i \in 0..(n - 1) |->
        [k \in 1..(Min2(i + 4, n - 1) - i) |-> <<i + k, weight[<<i, i + k>>]>>]]
DijkstraRequests ==
    UNION {{[graph |-> GraphOf(n, weight), start |-> start, end |-> end] :
               weight \in [ForwardEdges(n) -> EdgeWeights],
               start \in 0..(n - 1), end \in 0..(n - 1)} :
           n \in 1..MaxNodes}
BlockedRows == CrimeRows \cup {Row(1, 4, 7, 20)}
BlockedStores == {S \in SUBSET BlockedRows : Cardinality(S) <= MaxCrimes + 2}

\* polylines the oracle may answer with, as [lng, lat] pairs: none, one
\* point, the straight line, a line through one via point, or a line that
\* repeats a via point
ViaPoints == {<<0, 4>>, <<4, 4>>}
\* a via point the oracle lists twice in a row (a join of two legs)
JoinPoints == {<<0, 4>>}
Polylines(req) ==
    LET s == <<req.start_lng, req.start_lat>>
        e == <<req.end_lng, req.end_lat>>
    IN  {<<>>, <<s>>, <<s, e>>} \cup {<<s, <<v[2], v[1]>>, e>> : v \in ViaPoints}
            \cup {<<s, <<v[2], v[1]>>, <<v[2], v[1]>>, e>> : v \in JoinPoints}

RECURSIVE RouteLength(_)
\* the haversine length of a [lng, lat] polyline
RouteLength(coordinates) ==
    IF Len(coordinates) < 2 THEN 0
    ELSE _calculate_distance(coordinates[1][2], coordinates[1][1],
                             coordinates[2][2], coordinates[2][1])
             + RouteLength(Tail(coordinates))

\* distances the oracle may report besides the polyline's haversine length
OracleDistances == {0, 300}
\* the oracle's duration for a distance, at walking pace
WalkingDuration(distance) == (3 * distance) \div 4

OracleReplies(req) ==
    {None, MapboxJson(<<>>)}
        \cup UNION {{MapboxJson(<<MapboxRoute(c, d, WalkingDuration(d))>>) :
                        d \in OracleDistances \cup {RouteLength(c)}} :
                    c \in Polylines(req)}

\* ------------------------------------------------------------ state

VARIABLES
    pc,               \* where find_optimal_route or get_crime_density_heatmap stands
    request,          \* its arguments
    store,            \* the rows of the crimes table
    crime_data,       \* the CrimePoint list of the request
    fastest_response, \* the oracle's reply to the first call
    safest_waypoints, \* the result of _get_crime_aware_waypoints
    safest_response,  \* the oracle's reply to the second call
    oracle_calls,     \* the waypoint lists sent to the oracle, in order
    log,              \* the steps of find_optimal_route that have completed
    result,           \* what the request returned or raised
    density_map,      \* the dictionary of _calculate_crime_density_map
    is_running,       \* ScheduledSync.is_running
    sync_pc,          \* where each run_sync coroutine stands
    existing_ids,     \* the source ids of the stored sf_police reports
    sync_result,      \* the result of the last sync_new_data call that returned
    now,              \* datetime.utcnow(), in hours
    active_alerts,    \* RealTimeAlerts.active_alerts, in insertion order
    alert_zones       \* RealTimeAlerts.alert_zones

routerVars == <<pc, request, store, crime_data, fastest_response, safest_waypoints,
                safest_response, oracle_calls, log, result, density_map>>
routerData == <<request, store, crime_data, fastest_response, safest_waypoints,
                safest_response, oracle_calls, log, density_map>>
syncVars == <<is_running, sync_pc, existing_ids, sync_result>>
alertVars == <<now, active_alerts, alert_zones>>
serviceVars == <<syncVars, alertVars>>
vars == <<routerVars, serviceVars>>

Unset == [kind |-> "unset"]
Pending == [status |-> "pending"]
Raised(error) == [status |-> "raised", error |-> error]

Init ==
    /\ \/ /\ pc = "start" /\ request \in Requests
          /\ store \in Stores /\ crime_data = <<>>
       \/ /\ pc = "heatmap_start" /\ request \in HeatmapRequests
          /\ store \in Stores /\ crime_data = <<>>
       \/ /\ pc = "blocked_start" /\ request \in HeatmapRequests
          /\ store \in BlockedStores /\ crime_data = <<>>
       \/ /\ pc = "waypoints_start" /\ request \in Requests
          /\ store = {} /\ crime_data \in WaypointCrimeLists
       \/ /\ pc = "sync" /\ request = <<>>
          /\ store = {} /\ crime_data = <<>>
       \/ /\ pc = "dijkstra_start" /\ request \in DijkstraRequests
          /\ store = {} /\ crime_data = <<>>
       \/ /\ pc = "alerts" /\ request = <<>>
          /\ store \in AlertTables /\ crime_data = <<>>
    /\ fastest_response = Unset
    /\ safest_waypoints = <<>>
    /\ safest_response = Unset
    /\ oracle_calls = <<>>
    /\ log = <<>>
    /\ result = Pending
    /\ density_map = <<>>
    /\ is_running = FALSE
    /\ sync_pc = [t \in SyncTasks |-> "idle"]
    /\ existing_ids \in (IF pc = "sync" THEN {{}, {1}} ELSE {{}})
    /\ sync_result = NoSyncResult
    /\ now = 0
    /\ active_alerts = <<>>
    /\ alert_zones = <<>>

\* ------------------------------------------------------------ crime store

Buffer == 1110   \* 0.01 degree, in waypoint units

\* the WHERE clause of _get_crime_data_for_area (bounds in waypoint units)
InQuery(row, min_lat, min_lng, max_lat, max_lng) ==
    /\ ToWaypointUnits(row.lat) >= min_lat - Buffer
    /\ ToWaypointUnits(row.lat) <= max_lat + Buffer
    /\ ToWaypointUnits(row.lng) >= min_lng - Buffer
    /\ ToWaypointUnits(row.lng) <= max_lng + Buffer
    /\ row.hours_ago <= 90 * 24

\* _get_crime_data_for_area: the selected rows as CrimePoints, most recent
\* first (ORDER BY occurred_at DESC; rows of equal age in either order)
_get_crime_data_for_area(rows, min_lat, min_lng, max_lat, max_lng) ==
    LET selected == {r \in rows : InQuery(r, min_lat, min_lng, max_lat, max_lng)}
        n == Cardinality(selected)
    IN  {[k \in 1..n |-> CrimePoint(f[k].lat, f[k].lng, f[k].severity, f[k].hours_ago)] :
            f \in {g \in [1..n -> selected] :
                      /\ \A i, j \in 1..n : i # j => g[i] # g[j]
                      /\ \A i, j \in 1..n : i < j => g[i].hours_ago <= g[j].hours_ago}}

\* ------------------------------------------------------------ find_optimal_route

\* the crime query succeeds
FetchCrimes ==
    /\ pc = "start"
    /\ \E cd \in _get_crime_data_for_area(store,
                     ToWaypointUnits(Min2(request.start_lat, request.end_lat)) - Buffer,
                     ToWaypointUnits(Min2(request.start_lng, request.end_lng)) - Buffer,
                     ToWaypointUnits(Max2(request.start_lat, request.end_lat)) + Buffer,
                     ToWaypointUnits(Max2(request.start_lng, request.end_lng)) + Buffer) :
           crime_data' = cd
    /\ pc' = "fetched"
    /\ log' = Append(log, "crime_fetch")
    /\ UNCHANGED <<serviceVars, density_map, request, store, fastest_response, safest_waypoints,
                   safest_response, oracle_calls, result>>

\* engine.connect() or conn.execute() raises: the exception leaves
\* find_optimal_route
FetchCrimesFails ==
    /\ pc = "start"
    /\ pc' = "raised"
    /\ result' = Raised("StoreUnavailable")
    /\ UNCHANGED <<serviceVars, density_map, request, store, crime_data, fastest_response, safest_waypoints,
                   safest_response, oracle_calls, log>>

\* the HTTP request of _get_mapbox_route for a waypoint list
_get_mapbox_route(waypoints) == OracleReplies(request)

\* the first oracle call without the "if not fastest_response" check
BaselineOracle_Unchecked ==
    /\ pc = "fetched"
    /\ oracle_calls' = Append(oracle_calls,
           <<<<ToWaypointUnits(request.start_lng), ToWaypointUnits(request.start_lat)>>,
             <<ToWaypointUnits(request.end_lng), ToWaypointUnits(request.end_lat)>>>>)
    /\ fastest_response' \in OracleReplies(request)
    /\ pc' = "baseline_done"
    /\ log' = Append(log, "baseline_oracle")
    /\ UNCHANGED <<serviceVars, density_map, request, store, crime_data, safest_waypoints, safest_response, result>>

\* lines 124-129: the first oracle call
BaselineOracle ==
    /\ pc = "fetched"
    /\ LET fastest_waypoints ==
               <<<<ToWaypointUnits(request.start_lng), ToWaypointUnits(request.start_lat)>>,
                 <<ToWaypointUnits(request.end_lng), ToWaypointUnits(request.end_lat)>>>>
       IN  /\ oracle_calls' = Append(oracle_calls, fastest_waypoints)
           /\ \E reply \in _get_mapbox_route(fastest_waypoints) :
                 /\ fastest_response' = reply
                 /\ IF reply = None
                    THEN /\ pc' = "raised"
                         /\ result' = Raised("Failed to get fastest route from Mapbox")
                    ELSE /\ pc' = "baseline_done"
                         /\ result' = result
    /\ log' = Append(log, "baseline_oracle")
    /\ UNCHANGED <<serviceVars, density_map, request, store, crime_data, safest_waypoints, safest_response>>

\* lines 131-134: the waypoints of the second call
SynthesizeWaypoints ==
    /\ pc = "baseline_done"
    /\ safest_waypoints' = _get_crime_aware_waypoints(
                               request.start_lat, request.start_lng,
                               request.end_lat, request.end_lng, crime_data)
    /\ pc' = "waypoints_done"
    /\ log' = Append(log, "detour_synthesis")
    /\ UNCHANGED <<serviceVars, density_map, request, store, crime_data, fastest_response, safest_response,
                   oracle_calls, result>>

\* the second oracle call issued without waiting for the waypoints
AlternativeOracle_Early ==
    /\ pc \in {"baseline_done", "waypoints_done"}
    /\ oracle_calls' = Append(oracle_calls, safest_waypoints)
    /\ \E reply \in OracleReplies(request) :
          /\ safest_response' = reply
          /\ IF reply = None
             THEN /\ pc' = "raised"
                  /\ result' = Raised("Failed to get safest route from Mapbox")
             ELSE /\ pc' = "alternative_done"
                  /\ result' = result
    /\ log' = Append(log, "alternative_oracle")
    /\ UNCHANGED <<serviceVars, density_map, request, store, crime_data, fastest_response, safest_waypoints>>

\* lines 135-138: the second oracle call
AlternativeOracle ==
    /\ pc = "waypoints_done"
    /\ oracle_calls' = Append(oracle_calls, safest_waypoints)
    /\ \E reply \in _get_mapbox_route(safest_waypoints) :
          /\ safest_response' = reply
          /\ IF reply = None
             THEN /\ pc' = "raised"
                  /\ result' = Raised("Failed to get safest route from Mapbox")
             ELSE /\ pc' = "alternative_done"
                  /\ result' = result
    /\ log' = Append(log, "alternative_oracle")
    /\ UNCHANGED <<serviceVars, density_map, request, store, crime_data, fastest_response, safest_waypoints>>

\* lines 144-160: the comparison block; values rounded to one decimal are
\* in tenths.  Dividing by a total_distance of 0 raises ZeroDivisionError.
Comparison(fastest_route, safest_route) ==
    LET time_diff_seconds == safest_route.total_duration - fastest_route.total_duration
        distance_diff_meters == safest_route.total_distance - fastest_route.total_distance
        safety_improvement ==
            safest_route.total_safety_score - fastest_route.total_safety_score
    IN  [time_difference_seconds |-> 10 * time_diff_seconds,
         time_difference_minutes |-> RoundDiv(10 * time_diff_seconds, 60),
         distance_difference_meters |-> 10 * distance_diff_meters,
         distance_difference_percent |->
             RoundDiv(1000 * distance_diff_meters, fastest_route.total_distance),
         safety_improvement |-> RoundDiv(safety_improvement, 100),
         safety_improvement_percent |->
             RoundDiv(1000 * safety_improvement,
                      Max2(fastest_route.total_safety_score, 100))]

\* lines 144-160, given both routes
ResponseOfRoutes(f, s) ==
    IF f.route.total_distance = 0
    THEN [result |-> Raised("ZeroDivisionError"), crime_data |-> s.crime_data]
    ELSE [result |-> [status |-> "returned",
                      fastest_route |-> f.route,
                      safest_route |-> s.route,
                      comparison |-> Comparison(f.route, s.route)],
          crime_data |-> s.crime_data]

\* lines 142-160, given the result of building the safest route
ResponseOfSafest(f, s) ==
    IF s.exc # "none" THEN [result |-> Raised(s.exc), crime_data |-> s.crime_data]
    ELSE ResponseOfRoutes(f, s)

\* lines 141-160, given the result of building the fastest route
ResponseOfFastest(safest, f) ==
    IF f.exc # "none" THEN [result |-> Raised(f.exc), crime_data |-> f.crime_data]
    ELSE ResponseOfSafest(f, _build_route_from_response(safest, f.crime_data, "safest"))

\* lines 140-160: what find_optimal_route returns or raises once both
\* replies are in, and crime_data afterwards
BuildResponse(fastest, safest, crimes) ==
    ResponseOfFastest(safest, _build_route_from_response(fastest, crimes, "fastest"))

\* lines 140-160
BuildAndReturn ==
    /\ pc = "alternative_done"
    /\ \E r \in {BuildResponse(fastest_response, safest_response, crime_data)} :
           /\ result' = r.result
           /\ crime_data' = r.crime_data
           /\ pc' = r.result.status
    /\ log' = Append(log, "build")
    /\ UNCHANGED <<serviceVars, density_map, request, store, fastest_response, safest_waypoints,
                   safest_response, oracle_calls>>

\* the outcome of one more find_optimal_route call for the same request,
\* given the CrimePoints it fetched, its waypoints and its response
RepeatOutcome(cd, waypoints, r) ==
    /\ crime_data' = r.crime_data
    /\ safest_waypoints' = waypoints
    /\ result' = r.result
    /\ oracle_calls' = oracle_calls \o
           <<<<<<ToWaypointUnits(request.start_lng), ToWaypointUnits(request.start_lat)>>,
               <<ToWaypointUnits(request.end_lng), ToWaypointUnits(request.end_lat)>>>>,
             waypoints>>

\* a second call whose crime query runs a day later (NOW() has advanced)
RepeatCall_ClockAdvanced ==
    /\ pc = "returned"
    /\ \E fetched \in _get_crime_data_for_area(store,
                     ToWaypointUnits(Min2(request.start_lat, request.end_lat)) - Buffer,
                     ToWaypointUnits(Min2(request.start_lng, request.end_lng)) - Buffer,
                     ToWaypointUnits(Max2(request.start_lat, request.end_lat)) + Buffer,
                     ToWaypointUnits(Max2(request.start_lng, request.end_lng)) + Buffer) :
          \E cd \in {[k \in 1..Len(fetched) |-> [fetched[k] EXCEPT !.hours_ago = @ + 24]]} :
             RepeatOutcome(cd,
                           _get_crime_aware_waypoints(request.start_lat, request.start_lng,
                                                      request.end_lat, request.end_lng, cd),
                           BuildResponse(fastest_response, safest_response, cd))
    /\ pc' = "repeated"
    /\ UNCHANGED <<serviceVars, density_map, request, store, fastest_response, safest_response, log>>

\* lines 110-160 once more: a second find_optimal_route call for the same
\* request, on the same rows and ages, with the oracle giving the same two
\* replies.  The call builds its CrimePoints anew from the query (lines
\* 270-279).
RepeatCall ==
    /\ pc = "returned"
    /\ \E cd \in _get_crime_data_for_area(store,
                     ToWaypointUnits(Min2(request.start_lat, request.end_lat)) - Buffer,
                     ToWaypointUnits(Min2(request.start_lng, request.end_lng)) - Buffer,
                     ToWaypointUnits(Max2(request.start_lat, request.end_lat)) + Buffer,
                     ToWaypointUnits(Max2(request.start_lng, request.end_lng)) + Buffer) :
          RepeatOutcome(cd,
                        _get_crime_aware_waypoints(request.start_lat, request.start_lng,
                                                   request.end_lat, request.end_lng, cd),
                        BuildResponse(fastest_response, safest_response, cd))
    /\ pc' = "repeated"
    /\ UNCHANGED <<serviceVars, density_map, request, store, fastest_response, safest_response, log>>

\* ------------------------------------------------------------ get_crime_density_heatmap

\* line 811: the crime query of the heatmap succeeds
HeatmapFetch ==
    /\ pc = "heatmap_start"
    /\ \E cd \in _get_crime_data_for_area(store,
                     ToWaypointUnits(request.min_lat), ToWaypointUnits(request.min_lng),
                     ToWaypointUnits(request.max_lat), ToWaypointUnits(request.max_lng)) :
           crime_data' = cd
    /\ pc' = "heatmap_fetched"
    /\ UNCHANGED <<serviceVars, density_map, request, store, fastest_response, safest_waypoints,
                   safest_response, oracle_calls, log, result>>

\* line 811: the crime query raises and the exception leaves
\* get_crime_density_heatmap
HeatmapFetchFails ==
    /\ pc = "heatmap_start"
    /\ pc' = "raised"
    /\ result' = Raised("StoreUnavailable")
    /\ UNCHANGED <<serviceVars, density_map, request, store, crime_data, fastest_response,
                   safest_waypoints, safest_response, oracle_calls, log>>

\* lines 813-835: the density map and the response
HeatmapReturn ==
    /\ pc = "heatmap_fetched"
    /\ \E m \in {_calculate_crime_density_map(request.min_lat, request.min_lng,
                                               request.max_lat, request.max_lng, crime_data)} :
           /\ density_map' = m
           /\ result' = HeatmapResponse(m, request.min_lat, request.min_lng, crime_data)
    /\ pc' = "heatmap_returned"
    /\ UNCHANGED <<serviceVars, request, store, crime_data, fastest_response, safest_waypoints,
                   safest_response, oracle_calls, log>>

\* lines 283-319: _get_crime_aware_waypoints called with a crime list
WaypointsOnly ==
    /\ pc = "waypoints_start"
    /\ result' = [status |-> "waypoints",
                  waypoints |-> _get_crime_aware_waypoints(request.start_lat, request.start_lng,
                                                           request.end_lat, request.end_lng,
                                                           crime_data)]
    /\ pc' = "waypoints_only"
    /\ UNCHANGED <<serviceVars, routerData>>

\* ------------------------------------------------------------ get_blocked_areas

\* lines 887-919: the crime query succeeds and the list is returned
BlockedAreasReturn ==
    /\ pc = "blocked_start"
    /\ \E cd \in _get_crime_data_for_area(store,
                     ToWaypointUnits(request.min_lat), ToWaypointUnits(request.min_lng),
                     ToWaypointUnits(request.max_lat), ToWaypointUnits(request.max_lng)) :
           /\ crime_data' = cd
           /\ result' = [status |-> "blocked_areas", blocked_areas |-> get_blocked_areas(cd)]
    /\ pc' = "blocked_returned"
    /\ UNCHANGED <<serviceVars, density_map, request, store, fastest_response, safest_waypoints,
                   safest_response, oracle_calls, log>>

\* line 903: the crime query raises and the exception leaves get_blocked_areas
BlockedAreasFails ==
    /\ pc = "blocked_start"
    /\ pc' = "raised"
    /\ result' = Raised("StoreUnavailable")
    /\ UNCHANGED <<serviceVars, density_map, request, store, crime_data, fastest_response,
                   safest_waypoints, safest_response, oracle_calls, log>>

\* ------------------------------------------------------------ ScheduledSync.run_sync

\* lines 40-42 of scheduled_sync.py: a sync is running and this call returns
RunSyncSkips(t) ==
    /\ pc = "sync"
    /\ sync_pc[t] = "idle"
    /\ is_running
    /\ sync_pc' = [sync_pc EXCEPT ![t] = "skipped"]
    /\ UNCHANGED <<routerVars, alertVars, is_running, existing_ids, sync_result>>

\* lines 40-48: the guard is passed and set, and sync_new_data is awaited
RunSyncStarts(t) ==
    /\ pc = "sync"
    /\ sync_pc[t] = "idle"
    /\ ~ is_running
    /\ is_running' = TRUE
    /\ sync_pc' = [sync_pc EXCEPT ![t] = "awaiting"]
    /\ UNCHANGED <<routerVars, alertVars, existing_ids, sync_result>>

\* the finally clause without the reset of is_running
RunSyncFinally_NoReset(t, outcome) ==
    /\ sync_pc' = [sync_pc EXCEPT ![t] = outcome]
    /\ UNCHANGED is_running

\* lines 66-68: the finally clause
RunSyncFinally(t, outcome) ==
    /\ is_running' = FALSE
    /\ sync_pc' = [sync_pc EXCEPT ![t] = outcome]

\* sync_new_data returns a success result (lines 33-70 of
\* incremental_sync.py), run_sync logs it (lines 50-60) and ends
SyncStored(recent_data, new_records, results) ==
    /\ sync_result' = SyncResult(recent_data, new_records, results)
    /\ existing_ids' = IF new_records = <<>> THEN existing_ids
                        ELSE existing_ids \cup results.source_ids
RunSyncSucceeds(t) ==
    /\ pc = "sync"
    /\ sync_pc[t] = "awaiting"
    /\ \E recent_data \in FetchedLists, commit_ok \in BOOLEAN :
           \E new_records \in {_filter_new_records(recent_data, existing_ids)} :
               SyncStored(recent_data, new_records,
                          _process_and_store_new_records(new_records, commit_ok))
    /\ RunSyncFinally(t, "succeeded")
    /\ UNCHANGED <<routerVars, alertVars>>

\* _get_existing_record_ids or _fetch_recent_data raises, sync_new_data
\* returns the failure result (lines 72-77), run_sync logs it (line 62)
RunSyncFails(t) ==
    /\ pc = "sync"
    /\ sync_pc[t] = "awaiting"
    /\ sync_result' = SyncFailure
    /\ RunSyncFinally(t, "failed")
    /\ UNCHANGED <<routerVars, alertVars, existing_ids>>

\* sync_new_data does not return (the awaiting task is cancelled, which no
\* except Exception clause catches); the finally clause runs
RunSyncRaises(t) ==
    /\ pc = "sync"
    /\ sync_pc[t] = "awaiting"
    /\ RunSyncFinally(t, "raised")
    /\ UNCHANGED <<routerVars, alertVars, existing_ids, sync_result>>

\* ------------------------------------------------------------ RealTimeAlerts

\* time passes
Tick ==
    /\ pc = "alerts"
    /\ now + TickHours <= MaxClock
    /\ now' = now + TickHours
    /\ UNCHANGED <<pc, routerData, result, syncVars, active_alerts, alert_zones>>

\* lines 74-94 of real_time_alerts.py, given the new alerts
RegisterAlerts(new_alerts, alerts) ==
    /\ active_alerts' = alerts
    /\ alert_zones' = _update_alert_zones(alerts, now)
    /\ result' = [status |-> "new_alerts", asked_at |-> now, alerts |-> new_alerts]

\* check_for_new_alerts
CheckForNewAlerts ==
    /\ pc = "alerts"
    /\ Cardinality({active_alerts[k].created_at : k \in 1..Len(active_alerts)} \cup {now})
           <= MaxChecks
    /\ \E recent_crimes \in {_get_recent_crimes(store, now)} :
          \E safety \in [{<<RoundToPrecision(recent_crimes[k].lat),
                             RoundToPrecision(recent_crimes[k].lng)>> :
                               k \in 1..Len(recent_crimes)} -> SafetyPercentages] :
             \E new_alerts \in {NewAlerts(recent_crimes, safety, now)} :
                RegisterAlerts(new_alerts, RegisterAll(active_alerts, new_alerts))
    /\ UNCHANGED <<pc, routerData, syncVars, now>>

\* get_active_alerts(lat, lng, radius_km)
GetActiveAlerts ==
    /\ pc = "alerts"
    /\ \E point \in QueryPoints, radius \in QueryRadii :
           result' = [status |-> "active_alerts", asked_at |-> now,
                      alerts |-> get_active_alerts(active_alerts, point[1], point[2], radius)]
    /\ UNCHANGED <<pc, routerData, syncVars, alertVars>>

\* check_route_safety(route_points)
CheckRouteSafety ==
    /\ pc = "alerts"
    /\ \E route_points \in AlertRoutes :
           result' = check_route_safety(active_alerts, route_points, now)
    /\ UNCHANGED <<pc, routerData, syncVars, alertVars>>

\* ------------------------------------------------------------ Dijkstra variants

\* lines 604-617: the three variants called with one graph, start and end
DijkstraVariants ==
    /\ pc = "dijkstra_start"
    /\ result' = [status |-> "paths",
                  safest |-> _dijkstra_safest(request.graph, request.start, request.end),
                  fastest |-> _dijkstra_fastest(request.graph, request.start, request.end),
                  balanced |-> _dijkstra_balanced(request.graph, request.start, request.end)]
    /\ pc' = "dijkstra_done"
    /\ UNCHANGED <<routerData, serviceVars>>

Next ==
    \/ FetchCrimes
    \/ FetchCrimesFails
    \/ BaselineOracle
    \/ SynthesizeWaypoints
    \/ AlternativeOracle
    \/ BuildAndReturn
    \/ RepeatCall
    \/ HeatmapFetch
    \/ HeatmapFetchFails
    \/ HeatmapReturn
    \/ BlockedAreasReturn
    \/ BlockedAreasFails
    \/ WaypointsOnly
    \/ \E t \in SyncTasks : RunSyncSkips(t)
    \/ \E t \in SyncTasks : RunSyncStarts(t)
    \/ \E t \in SyncTasks : RunSyncSucceeds(t)
    \/ \E t \in SyncTasks : RunSyncFails(t)
    \/ \E t \in SyncTasks : RunSyncRaises(t)
    \/ Tick
    \/ CheckForNewAlerts
    \/ GetActiveAlerts
    \/ CheckRouteSafety
    \/ DijkstraVariants

Spec == Init /\ [][Next]_vars

\* ============================================================ claims

Returned == result.status = "returned"
ReturnedRoutes == IF Returned THEN {result.fastest_route, result.safest_route} ELSE {}

\* C1: if the baseline oracle call succeeds and the alternative oracle call
\* fails, find_optimal_route returns normally, with the safest route equal
\* to the fastest route.
C1_AlternativeFailureFallsBack ==
    (/\ fastest_response.kind = "json"
     /\ Len(_parse_mapbox_route(fastest_response).coordinates) >= 2
     /\ safest_response = None)
        => (Returned /\ result.safest_route = result.fastest_route)

\* C2: a request that got both replies has issued two oracle calls when a
\* detour waypoint was synthesized, and one oracle call when the waypoint
\* list is the no-detour list [start, end].
C2_OracleCallCount ==
    pc \in {"alternative_done", "returned"}
        => Len(oracle_calls) = (IF Len(safest_waypoints) = 3 THEN 2 ELSE 1)

\* C3: the steps of one request happen in the order crime fetch, baseline
\* oracle call, detour synthesis, alternative oracle call: a step has only
\* happened if every earlier one has completed.
StepOrder == <<"crime_fetch", "baseline_oracle", "detour_synthesis",
               "alternative_oracle", "build">>
C3_StepOrder ==
    /\ Len(log) <= Len(StepOrder)
    /\ \A i \in 1..Len(log) : log[i] = StepOrder[i]
    /\ Len(oracle_calls) >= 1 => (Len(log) >= 2 /\ pc # "start")
    /\ safest_waypoints # <<>> => (Len(log) >= 3 /\ fastest_response.kind = "json")
    /\ Len(oracle_calls) >= 2 => (Len(log) >= 4 /\ safest_waypoints # <<>>)
C3_Witness ==
    /\ Len(oracle_calls) = 2
    /\ Len(safest_waypoints) = 3
    /\ safest_response.kind = "json"

\* C4: a failure of the crime query or of the baseline oracle call fails the
\* request and nothing of the request runs afterwards: after a store failure
\* no oracle call was issued, after a baseline failure the alternative call
\* was not issued and the result is the exception; a request that raised
\* takes no further step.
C4_FatalFailures ==
    /\ [](/\ result = Raised("StoreUnavailable")
             => (pc = "raised" /\ oracle_calls = <<>> /\ log = <<>>)
          /\ fastest_response = None
             => (/\ pc = "raised"
                 /\ result.status = "raised"
                 /\ Len(oracle_calls) = 1
                 /\ safest_waypoints = <<>>
                 /\ safest_response = Unset))
    /\ [][pc # "raised"]_vars
C4_Witness ==
    /\ fastest_response = None
    /\ crime_data # <<>>
    /\ result.status = "raised"

\* C5: every segment of every returned route has a safety score between 0
\* and 100.
C5_SegmentScoreInRange ==
    \A route \in ReturnedRoutes : \A k \in 1..Len(route.segments) :
        /\ 0 <= route.segments[k].safety_score
        /\ route.segments[k].safety_score <= 100000
\* a returned segment whose unclamped penalty 10*density + 20*high + 30*recent
\* exceeds 100
C5_Witness ==
    \E route \in ReturnedRoutes : \E k \in 1..Len(route.segments) :
        /\ route.segments[k].safety_score = 0
        /\ route.segments[k].crime_density * 10
               + route.segments[k].high_severity_crimes * 20000
               + route.segments[k].recent_crimes * 30000 > 100000

\* C6: every returned route has a total safety score between 0 and 100.
C6_TotalSafetyInRange ==
    \A route \in ReturnedRoutes :
        0 <= route.total_safety_score /\ route.total_safety_score <= 100000

\* C7: the safest route's total safety score is not lower than the fastest
\* route's, beyond a rounding tolerance of 0.1.
C7_SafestNotLessSafe ==
    Returned =>
        result.safest_route.total_safety_score + 100
            >= result.fastest_route.total_safety_score

\* C8: with an empty crime set every segment score and the total score of a
\* returned route are 100 and every segment penalty and the total penalty
\* are 0.
C8_EmptyCrimeSet ==
    crime_data = <<>> =>
        \A route \in ReturnedRoutes :
            /\ \A k \in 1..Len(route.segments) :
                  /\ route.segments[k].safety_score = 100000
                  /\ route.segments[k].edge_weight
                         = [crit |-> 0, std |-> 100 * route.segments[k].distance]
            /\ route.total_crime_penalty = ZeroPenalty
            /\ route.total_safety_score = 100000

\* the list without its i-th element
RemoveAt(s, i) == [k \in 1..(Len(s) - 1) |-> IF k < i THEN s[k] ELSE s[k + 1]]

\* C9: for every segment of a returned route and every crime at a
\* point-to-segment distance of R = 100 m or more, scoring the segment
\* without that crime gives the same penalty and the same safety score.
C9_BoundedInfluence ==
    \A route \in ReturnedRoutes : \A k \in 1..Len(route.segments) :
        LET seg == route.segments[k]
            a == <<seg.start_lat, seg.start_lng>>
            b == <<seg.end_lat, seg.end_lng>>
        IN  \A i \in 1..Len(crime_data) :
                _distance_point_to_line_segment(crime_data[i].lat, crime_data[i].lng,
                                                a[1], a[2], b[1], b[2])
                    >= crime_influence_radius
                => LET with == CreateSegment(a, b, crime_data).segment
                       without == CreateSegment(a, b, RemoveAt(crime_data, i)).segment
                   IN  /\ with.safety_score = without.safety_score
                       /\ with.edge_weight = without.edge_weight

\* the detour-exposure score of a baseline segment, in tenths: the sum of
\* severity_weight over the crimes of severity >= 7 within 200 m of it
DetourExposure10(a, b, crimes) ==
    SumSeq([i \in 1..Len(crimes) |->
               IF /\ crimes[i].severity >= 7
                  /\ _distance_point_to_line_segment(crimes[i].lat, crimes[i].lng,
                                                     a[1], a[2], b[1], b[2]) <= 200
               THEN SeverityFactor10(crimes[i].severity)
               ELSE 0])

\* C10: a detour waypoint is synthesized if and only if the detour-exposure
\* score of some segment of the baseline polyline exceeds 0.3.
C10_DetourIffExposed ==
    (safest_waypoints # <<>> /\ _parse_mapbox_route(fastest_response).exc = "none") =>
        LET path == _parse_mapbox_route(fastest_response).coordinates
        IN  (Len(safest_waypoints) = 3)
                <=> (\E k \in 1..(Len(path) - 1) :
                        DetourExposure10(path[k], path[k + 1], crime_data) > 3)

\* C11: the waypoint list of _get_crime_aware_waypoints begins with start,
\* ends with end and has at most one interior waypoint (length 2 or 3).
C11_WaypointListShape ==
    safest_waypoints # <<>> =>
        /\ Len(safest_waypoints) \in {2, 3}
        /\ safest_waypoints[1]
               = <<ToWaypointUnits(request.start_lng), ToWaypointUnits(request.start_lat)>>
        /\ safest_waypoints[Len(safest_waypoints)]
               = <<ToWaypointUnits(request.end_lng), ToWaypointUnits(request.end_lat)>>
\* a detour was synthesized for the diagonal request
C11_Witness ==
    /\ Len(safest_waypoints) = 3
    /\ request.start_lat < request.end_lat
    /\ request.start_lng > request.end_lng

\* twice the midpoint of a baseline segment, as <<lng, lat>> in waypoint units
TwiceMidpoint(a, b) == <<ToWaypointUnits(a[2] + b[2]), ToWaypointUnits(a[1] + b[1])>>
\* the displacement 2 * (w - m) is perpendicular to end - start and has the
\* magnitude 2 * 0.003 degree (0.003 degree = 333 waypoint units)
PerpendicularOffset(w, twice_m, req) ==
    LET dx == 2 * w[1] - twice_m[1]
        dy == 2 * w[2] - twice_m[2]
    IN  /\ dx * (req.end_lng - req.start_lng) + dy * (req.end_lat - req.start_lat) = 0
        /\ dx * dx + dy * dy = (2 * 333) * (2 * 333)

\* C12: a synthesized detour waypoint is displaced from the reference
\* midpoint (the midpoint of some segment of the baseline polyline)
\* perpendicularly to end - start, by exactly 0.003 degree.
C12_PerpendicularDetour ==
    (/\ Len(safest_waypoints) = 3
     /\ Len(_parse_mapbox_route(fastest_response).coordinates) >= 2) =>
        LET path == _parse_mapbox_route(fastest_response).coordinates
        IN  \E k \in 1..(Len(path) - 1) :
                PerpendicularOffset(safest_waypoints[2], TwiceMidpoint(path[k], path[k + 1]),
                                    request)

\* C13: time decay is constant below 24 h and strictly drops at 24 h: for
\* the ages h1 < h2 of two fetched crimes, h2 < 24 gives equal decays and
\* h1 < 24 <= h2 (h2 = 24 included) gives a strictly smaller decay for h2.
C13_TimeDecayDropsAt24 ==
    \A i, j \in 1..Len(crime_data) :
        LET h1 == crime_data[i].hours_ago
            h2 == crime_data[j].hours_ago
        IN  /\ (h1 < h2 /\ h2 < 24)
                   => _calculate_time_decay10(h1) = _calculate_time_decay10(h2)
            /\ (h1 < 24 /\ 24 <= h2)
                   => _calculate_time_decay10(h1) > _calculate_time_decay10(h2)

\* C14: a zero-length segment (coincident endpoints) of a returned route has
\* penalty 0 and safety score 100, whatever the crime set.
C14_ZeroLengthSegment ==
    \A route \in ReturnedRoutes : \A k \in 1..Len(route.segments) :
        (/\ route.segments[k].start_lat = route.segments[k].end_lat
         /\ route.segments[k].start_lng = route.segments[k].end_lng)
            => /\ route.segments[k].safety_score = 100000
               /\ route.segments[k].edge_weight = ZeroPenalty

\* the crimes _get_crimes_near_segment returns, with distance_to_route set
NearbyCrimes(near) == [k \in 1..Len(near.nearby) |-> near.crime_data[near.nearby[k]]]
\* one term t * sigma * d * 200 of the stated sum, in thousandths, capped at
\* 100 points (a larger term saturates the clamp just the same)
StatedScoreTerm(crime) ==
    LET tsd == _calculate_time_decay10(crime.hours_ago) * SeverityFactor10(crime.severity)
                   * DistanceFactor100(crime)
    IN  IF tsd >= 5000 THEN 100000 ELSE 20 * tsd
\* clamp(100 - S, 0, 100), in thousandths
StatedSafetyScore(crimes) ==
    Max2(0, 100000 - SumSeq([k \in 1..Len(crimes) |-> StatedScoreTerm(crimes[k])]))

\* C15: the safety score of every segment of a returned route, and the score
\* _calculate_segment_safety gives its nearby crimes, equal clamp(100 - S, 0,
\* 100) with S the sum over the crimes within the influence radius of
\* time_decay * severity_weight * max(0, 1 - distance / R) * 200.
C15_SegmentScoreFormula ==
    \A route \in ReturnedRoutes : \A k \in 1..Len(route.segments) :
        LET seg == route.segments[k]
            crimes == NearbyCrimes(_get_crimes_near_segment(
                          seg.start_lat, seg.start_lng, seg.end_lat, seg.end_lng, crime_data))
        IN  /\ seg.safety_score = StatedSafetyScore(crimes)
            /\ _calculate_segment_safety(crimes) = StatedSafetyScore(crimes)

\* C16: for every returned route the sum of its segments' distances equals
\* total_distance to within 1 m (plus the rounding of the whole-metre segment
\* distances, below 1 m per segment); stated for the routes that have
\* segments.
C16_SegmentDistancesSum ==
    \A route \in ReturnedRoutes :
        LET total == SumSeq([k \in 1..Len(route.segments) |-> route.segments[k].distance])
        IN  route.segments # <<>> =>
                /\ total - route.total_distance <= 1 + Len(route.segments)
                /\ route.total_distance - total <= 1 + Len(route.segments)

\* C17: computing the comparison block never fails with a division by
\* zero: once both routes are built the response is returned, also for a
\* fastest route whose total_distance or total_safety_score is 0.
C17_ComparisonGuarded ==
    (/\ Len(log) = Len(StepOrder)
     /\ _parse_mapbox_route(fastest_response).coordinates # <<>>
     /\ _parse_mapbox_route(safest_response).coordinates # <<>>)
        => (Returned /\ result # Raised("ZeroDivisionError"))

\* C18: if the oracle answers a call with a polyline of fewer than two
\* points the request fails, and no route with zero segments is returned.
C18_DegenerateRouteFails ==
    /\ (/\ Len(log) = Len(StepOrder)
         /\ \/ Len(_parse_mapbox_route(fastest_response).coordinates) < 2
            \/ Len(_parse_mapbox_route(safest_response).coordinates) < 2)
            => result.status = "raised"
    /\ \A route \in ReturnedRoutes : route.segments # <<>>

\* the density the map holds for a cell (0 for a cell without an entry)
DensityAt(map, grid_key) ==
    SumSeq([k \in 1..Len(map) |-> IF map[k].grid_key = grid_key THEN map[k].density ELSE 0])
\* the cell that contains a coordinate: floor((coordinate - min) / 100 m)
ContainingCell(crime, min_lat, min_lng) ==
    <<(crime.lat - min_lat) \div CellsPer100m, (crime.lng - min_lng) \div CellsPer100m>>
\* the sum of time_decay * severity_weight over the crimes a cell contains
StatedDensity(crimes, grid_key, min_lat, min_lng) ==
    SumSeq([i \in 1..Len(crimes) |->
               IF ContainingCell(crimes[i], min_lat, min_lng) = grid_key
               THEN _calculate_time_decay10(crimes[i].hours_ago)
                        * SeverityFactor10(crimes[i].severity)
               ELSE 0])

\* C19: in the density map of a heatmap request every cell of the grid holds
\* exactly the sum of time_decay * severity_weight over the incidents whose
\* coordinates it contains; an incident outside the grid (also one just
\* south or west of min_lat / min_lng) contributes to no cell.
C19_DensityByContainingCell ==
    pc = "heatmap_returned" =>
        LET dims == GridDimensions(request.min_lat, request.min_lng,
                                   request.max_lat, request.max_lng)
        IN  \A grid_lat \in 0..(dims.grid_lat_cells - 1) :
                \A grid_lng \in 0..(dims.grid_lng_cells - 1) :
                    DensityAt(density_map, <<grid_lat, grid_lng>>)
                        = StatedDensity(crime_data, <<grid_lat, grid_lng>>,
                                        request.min_lat, request.min_lng)

\* C20: every key (grid_lat, grid_lng) of the density map satisfies
\* 0 <= grid_lat < grid_lat_cells and 0 <= grid_lng < grid_lng_cells.
C20_GridIndicesInRange ==
    pc = "heatmap_returned" =>
        LET dims == GridDimensions(request.min_lat, request.min_lng,
                                   request.max_lat, request.max_lng)
        IN  \A k \in 1..Len(density_map) :
                /\ 0 <= density_map[k].grid_key[1]
                /\ density_map[k].grid_key[1] < dims.grid_lat_cells
                /\ 0 <= density_map[k].grid_key[2]
                /\ density_map[k].grid_key[2] < dims.grid_lng_cells
\* a density map with an entry, computed from a crime list of which one
\* crime has a grid coordinate beyond the last cell
C20_Witness ==
    /\ pc = "heatmap_returned"
    /\ density_map # <<>>
    /\ \E i \in 1..Len(crime_data) :
          TruncDiv(crime_data[i].lat - request.min_lat, CellsPer100m)
              >= GridDimensions(request.min_lat, request.min_lng,
                                request.max_lat, request.max_lng).grid_lat_cells

\* a crime zone lies within the influence radius of a segment of the route
NearRoute(zone, route) ==
    \E k \in 1..Len(route.segments) :
        _distance_point_to_line_segment(zone.lat, zone.lng,
                                        route.segments[k].start_lat, route.segments[k].start_lng,
                                        route.segments[k].end_lat, route.segments[k].end_lng)
            <= crime_influence_radius

\* C21: each returned route carries at most 20 critical crime zones, and
\* every zone is a crime within the influence region of some segment of the
\* fastest or the safest route (stated for responses whose two routes have
\* segments).
C21_CriticalZonesNearRoutes ==
    \A route \in ReturnedRoutes :
        (result.fastest_route.segments # <<>> /\ result.safest_route.segments # <<>>) =>
            /\ Len(route.critical_crime_zones) <= 20
            /\ \A z \in 1..Len(route.critical_crime_zones) :
                  \/ NearRoute(route.critical_crime_zones[z], result.fastest_route)
                  \/ NearRoute(route.critical_crime_zones[z], result.safest_route)

C23_CrimePointsImmutable ==
    [][(pc \notin {"start", "heatmap_start", "blocked_start"} /\ pc' # "repeated") => crime_data' = crime_data]_vars

\* the rows the crime query of the request's box selects that are at most
\* 24 hours old
FetchedLastDay ==
    {r \in store : /\ InQuery(r, ToWaypointUnits(request.min_lat), ToWaypointUnits(request.min_lng),
                               ToWaypointUnits(request.max_lat), ToWaypointUnits(request.max_lng))
                   /\ r.hours_ago <= 24}

\* C24: get_blocked_areas returns one entry for every fetched incident of age
\* <= 24 h and none for an older one, each with blocked_radius 100 and
\* penalty_level CRITICAL; incidents at the same coordinates are not merged
\* (the list is as long as the number of fetched incidents of age <= 24 h).
C24_BlockedAreasOnePerIncident ==
    pc = "blocked_returned" =>
        /\ Len(result.blocked_areas) = Cardinality(FetchedLastDay)
        /\ \A r \in FetchedLastDay :
               \E k \in 1..Len(result.blocked_areas) :
                   result.blocked_areas[k] = BlockedArea(r)
        /\ \A k \in 1..Len(result.blocked_areas) :
               /\ result.blocked_areas[k].blocked_radius = 100
               /\ result.blocked_areas[k].penalty_level = "CRITICAL"
               /\ \E r \in FetchedLastDay : result.blocked_areas[k] = BlockedArea(r)
\* a returned list with two entries at the same coordinates and one entry of
\* age exactly 24 h, from a fetch that also held an older incident
C24_Witness ==
    /\ pc = "blocked_returned"
    /\ \E j, k \in 1..Len(result.blocked_areas) :
           /\ j # k
           /\ result.blocked_areas[j].lat = result.blocked_areas[k].lat
           /\ result.blocked_areas[j].lng = result.blocked_areas[k].lng
    /\ \E k \in 1..Len(result.blocked_areas) : result.blocked_areas[k].hours_ago = 24
    /\ \E i \in 1..Len(crime_data) : crime_data[i].hours_ago > 24

\* the values _calculate_segment_crime_penalty reads for the segment p-q,
\* called with crime_data: every nearby crime holds its distance to p-q
ReadsFresh(p, q, near) ==
    \A k \in 1..Len(near.nearby) :
        near.crime_data[near.nearby[k]].distance_to_route
            = _distance_point_to_line_segment(near.crime_data[near.nearby[k]].lat,
                                              near.crime_data[near.nearby[k]].lng,
                                              p[1], p[2], q[1], q[2])
\* the same for the scorings of the segments i, i+1, ... of a path, one after
\* the other on the same CrimePoints
RECURSIVE ScoringsFresh(_, _, _)
ScoringsFreshStep(path_coordinates, i, near) ==
    /\ ReadsFresh(path_coordinates[i], path_coordinates[i + 1], near)
    /\ ScoringsFresh(path_coordinates, i + 1, near.crime_data)
ScoringsFresh(path_coordinates, i, cd) ==
    IF i >= Len(path_coordinates) THEN TRUE
    ELSE ScoringsFreshStep(path_coordinates, i,
                           _get_crimes_near_segment(path_coordinates[i][1], path_coordinates[i][2],
                                                    path_coordinates[i + 1][1], path_coordinates[i + 1][2],
                                                    cd))
\* the path of an oracle reply, empty when the reply has none
PathOf(response) ==
    IF response.kind = "json" /\ response.routes # <<>>
    THEN _parse_mapbox_route(response).coordinates ELSE <<>>

\* C25: in every sequence of segment scorings of a request (the fastest
\* path's segments, then the safest path's, on CrimePoints fresh from the
\* query or as earlier scorings left them), each distance_to_route that
\* _calculate_segment_crime_penalty reads is the crime's distance to the
\* segment being scored.
C25_DistanceReadIsFresh ==
    pc \in {"alternative_done", "returned", "repeated"} =>
        /\ ScoringsFresh(PathOf(fastest_response), 1, crime_data)
        /\ ScoringsFresh(PathOf(safest_response), 1,
                         _create_route_segments(PathOf(fastest_response), crime_data).crime_data)
\* a scored request where a crime holds the distance to one segment and lies
\* within the influence radius of a segment of the fastest route at another
\* distance
C25_Witness ==
    /\ pc = "returned"
    /\ \E i \in 1..Len(crime_data) :
           \E k \in 1..Len(result.fastest_route.segments) :
               \E d \in {_distance_point_to_line_segment(
                             crime_data[i].lat, crime_data[i].lng,
                             result.fastest_route.segments[k].start_lat,
                             result.fastest_route.segments[k].start_lng,
                             result.fastest_route.segments[k].end_lat,
                             result.fastest_route.segments[k].end_lng)} :
                   /\ d <= crime_influence_radius
                   /\ crime_data[i].distance_to_route > 0
                   /\ crime_data[i].distance_to_route # d

\* the crimes of crime_data with hours_ago <= 24 and severity >= 7
CriticalIndices == {i \in 1..Len(crime_data) : crime_data[i].hours_ago <= 24 /\ crime_data[i].severity >= 7}
\* one of them is less than 200 m (haversine) from the midpoint of the
\* straight line from start to end
CriticalNearMidpoint ==
    \E i \in CriticalIndices :
        _calculate_distance((request.start_lat + request.end_lat) \div 2,
                            (request.start_lng + request.end_lng) \div 2,
                            crime_data[i].lat, crime_data[i].lng) < 200
WaypointsComputed == pc \in {"waypoints_done", "alternative_done", "returned", "repeated", "waypoints_only"}
SynthesizedWaypoints == IF pc = "waypoints_only" THEN result.waypoints ELSE safest_waypoints

\* C26: _get_crime_aware_waypoints inserts an interior waypoint exactly when
\* between 1 and 9 crimes have hours_ago <= 24 and severity >= 7 and one of
\* them is less than 200 m from the midpoint; otherwise (10 or more such
\* crimes included) it returns [start, end].
C26_InteriorWaypointIff ==
    WaypointsComputed =>
        IF Cardinality(CriticalIndices) \in 1..9 /\ CriticalNearMidpoint
        THEN Len(SynthesizedWaypoints) = 3
        ELSE SynthesizedWaypoints = <<<<ToWaypointUnits(request.start_lng), ToWaypointUnits(request.start_lat)>>,
                                      <<ToWaypointUnits(request.end_lng), ToWaypointUnits(request.end_lat)>>>>
\* ten or more critical crimes, one of them 50 m from the midpoint, and no
\* interior waypoint
C26_Witness ==
    /\ pc = "waypoints_only"
    /\ Cardinality(CriticalIndices) >= 10
    /\ CriticalNearMidpoint
    /\ Len(result.waypoints) = 2

\* C27: run_sync is mutually exclusive and releases its guard: at most one
\* coroutine awaits sync_new_data; sync_new_data is invoked only while
\* is_running is false; a run_sync that finds the guard set returns without
\* changing is_running (or anything of the sync); and when a run that
\* started the sync ends, by a success result, a failure result or an
\* exception, is_running is false.
C27_RunSyncExclusive ==
    /\ [](Cardinality({t \in SyncTasks : sync_pc[t] = "awaiting"}) <= 1)
    /\ [][\A t \in SyncTasks :
             /\ (sync_pc[t] # "awaiting" /\ sync_pc'[t] = "awaiting") => ~ is_running
             /\ (sync_pc[t] # "skipped" /\ sync_pc'[t] = "skipped") =>
                    (is_running /\ is_running' /\ existing_ids' = existing_ids
                        /\ sync_result' = sync_result)
             /\ (sync_pc[t] = "awaiting" /\ sync_pc'[t] # "awaiting") => ~ is_running']_vars
\* one run_sync was skipped while another ran, that one ended by an
\* exception, and the guard is released
C27_Witness ==
    /\ \E t \in SyncTasks : sync_pc[t] = "skipped"
    /\ \E t \in SyncTasks : sync_pc[t] = "raised"
    /\ ~ is_running

\* C28: every success result of sync_new_data accounts for every fetched
\* record: records_added + records_skipped = records_processed.
C28_SyncAccounting ==
    sync_result.success =>
        sync_result.records_added + sync_result.records_skipped = sync_result.records_processed

\* the registered alerts whose expires_at had not passed at a time
Unexpired(utcnow) ==
    {active_alerts[k] : k \in {j \in 1..Len(active_alerts) : active_alerts[j].expires_at >= utcnow}}

\* C29: get_active_alerts and check_route_safety report no alert whose
\* expires_at has passed: every alert of a get_active_alerts result expires
\* at or after the time of the call, and every alert of a check_route_safety
\* response is the dictionary of such an alert.
C29_OnlyUnexpiredAlerts ==
    /\ result.status = "active_alerts" =>
           \A k \in 1..Len(result.alerts) : result.alerts[k].expires_at >= result.asked_at
    /\ result.status = "route_safety" =>
           \A k \in 1..Len(result.alerts) :
               \E alert \in Unexpired(result.asked_at) : result.alerts[k] = AlertDict(alert)

\* the weight of the edge u -> v of a graph (Infinity when there is none),
\* the summed weight of a node list, and the least summed weight of a path
\* from u to end
EdgeWeight(graph, u, v) ==
    IF \E k \in 1..Len(graph[u]) : graph[u][k][1] = v
    THEN (CHOOSE e \in {graph[u][k] : k \in 1..Len(graph[u])} : e[1] = v)[2]
    ELSE Infinity
PathWeight(graph, path) ==
    SumSeq([k \in 1..(Len(path) - 1) |-> EdgeWeight(graph, path[k], path[k + 1])])
RECURSIVE MinWeight(_, _, _)
MinWeight(graph, u, end) ==
    IF u = end THEN 0
    ELSE LET via == {graph[u][k][2] + MinWeight(graph, graph[u][k][1], end) :
                        k \in 1..Len(graph[u])}
         IN  IF via = {} THEN Infinity ELSE CHOOSE w \in via : \A x \in via : w <= x

\* C30: for every graph, start and end, the three _dijkstra variants return
\* the same path, and it is a path from start to end of minimum summed edge
\* weight.
C30_DijkstraVariantsAgree ==
    pc = "dijkstra_done" =>
        /\ result.safest = result.fastest
        /\ result.safest = result.balanced
        /\ Head(result.safest) = request.start
        /\ result.safest[Len(result.safest)] = request.end
        /\ PathWeight(request.graph, result.safest)
               = MinWeight(request.graph, request.start, request.end)

====
